---- MODULE Spec2Model ----
(***************************************************************************)
(* Model of the Model100Layout sketch: the compiled keymaps, the layer     *)
(* keys bound in them and the ActiveLayerStack they drive, the macros and  *)
(* start-up.  Key values are kept as the identifiers the sketch writes.    *)
(***************************************************************************)
EXTENDS Integers, Sequences, FiniteSets, TLC

VARIABLES pc, active_layers, pressed, live_keys,
          rs_stack, rs_pos, rs_key,
          millis, macro_pressed, event, typed, n_version_on, n_events,
          macro_live, macro_result,
          leds_enabled, led_calls, power_log, getKey, source_log

layer_vars == <<pc, active_layers, pressed, live_keys>>
resolve_vars == <<rs_stack, rs_pos, rs_key>>
macro_vars == <<millis, macro_pressed, event, typed, n_version_on, n_events,
                macro_live, macro_result>>
power_vars == <<leds_enabled, led_calls, power_log>>
source_vars == <<getKey, source_log>>
host_vars == <<leds_enabled, led_calls, power_log, getKey, source_log>>
vars == <<pc, active_layers, pressed, live_keys, rs_stack, rs_pos, rs_key,
          millis, macro_pressed, event, typed, n_version_on, n_events,
          macro_live, macro_result,
          leds_enabled, led_calls, power_log, getKey, source_log>>

(* ------------------------------ layers --------------------------------- *)

\* enum { SPECIAL, PRIMARY, SYMBOL, NAVIGATION, GAMING, NUMPAD }
SPECIAL == 0
PRIMARY == 1
SYMBOL == 2
NAVIGATION == 3
GAMING == 4
NUMPAD == 5

Layers == {SPECIAL, PRIMARY, SYMBOL, NAVIGATION, GAMING, NUMPAD}

LayerName == <<"SPECIAL", "PRIMARY", "SYMBOL", "NAVIGATION", "GAMING", "NUMPAD">>

\* Key_Transparent is the value the sketch writes ___ : the keypress falls
\* through to the previously active layer.  XXX marks a keyswitch as blocked.
Key_Transparent == "___"
XXX == "XXX"

ShiftToLayer(l) == "ShiftToLayer(" \o LayerName[l + 1] \o ")"
LockLayer(l) == "LockLayer(" \o LayerName[l + 1] \o ")"

\* The order in which KEYMAP_STACKED lists the switches <<row, column>>:
\* the left hand's layout first, then the right hand's.
KEYMAP_STACKED ==
  << <<0,0>>, <<0,1>>, <<0,2>>, <<0,3>>, <<0,4>>, <<0,5>>, <<0,6>>,
     <<1,0>>, <<1,1>>, <<1,2>>, <<1,3>>, <<1,4>>, <<1,5>>, <<1,6>>,
     <<2,0>>, <<2,1>>, <<2,2>>, <<2,3>>, <<2,4>>, <<2,5>>,
     <<3,0>>, <<3,1>>, <<3,2>>, <<3,3>>, <<3,4>>, <<3,5>>, <<2,6>>,
     <<0,7>>, <<1,7>>, <<2,7>>, <<3,7>>,
     <<3,6>>,
     <<0,9>>, <<0,10>>, <<0,11>>, <<0,12>>, <<0,13>>, <<0,14>>, <<0,15>>,
     <<1,9>>, <<1,10>>, <<1,11>>, <<1,12>>, <<1,13>>, <<1,14>>, <<1,15>>,
     <<2,10>>, <<2,11>>, <<2,12>>, <<2,13>>, <<2,14>>, <<2,15>>,
     <<2,9>>, <<3,10>>, <<3,11>>, <<3,12>>, <<3,13>>, <<3,14>>, <<3,15>>,
     <<3,8>>, <<2,8>>, <<1,8>>, <<0,8>>,
     <<3,9>> >>

Positions == {KEYMAP_STACKED[i] : i \in 1..Len(KEYMAP_STACKED)}

StackedIndex(p) == CHOOSE i \in 1..Len(KEYMAP_STACKED) : KEYMAP_STACKED[i] = p

SPECIAL_KEYMAP ==
  << "___", "Key_F1", "Key_F2", "Key_F3", "Key_F4", "Key_F5", "Key_F6",
     "___", "XXX", "XXX", "XXX", "XXX", "Consumer_ScanNextTrack", "___",
     "___", "XXX", "XXX", "XXX", "XXX", "Consumer_PlaySlashPause",
     "___", "___", "XXX", "XXX", "XXX", "Consumer_ScanPreviousTrack", "XXX",
     "___", "Key_Delete", "Key_Delete", "___",
     "XXX",
     "Key_F7", "Key_F8", "Key_F9", "Key_F10", "Key_F11", "Key_F12", "LockLayer(GAMING)",
     "XXX", "XXX", "XXX", "XXX", "XXX", "XXX", "XXX",
     "___", "LGUI(LCTRL(Key_LeftArrow))", "XXX", "LGUI(LCTRL(Key_RightArrow))", "XXX", "XXX",
     "___", "___", "XXX", "XXX", "XXX", "XXX", "XXX",
     "___", "___", "LSHIFT(Key_Minus)", "___",
     "XXX" >>

PRIMARY_KEYMAP ==
  << "Key_Esc", "Key_1", "Key_2", "Key_3", "Key_4", "Key_5", "Key_LeftGui",
     "Key_Backtick", "Key_Q", "Key_W", "Key_E", "Key_R", "Key_T", "Key_Tab",
     "Key_CapsLock", "Key_A", "Key_S", "Key_D", "Key_F", "Key_G",
     "Key_LeftAlt", "Key_Z", "Key_X", "Key_C", "Key_V", "Key_B", "Key_Escape",
     "Key_LeftControl", "Key_Backspace", "Key_Backspace", "Key_LeftShift",
     "ShiftToLayer(SYMBOL)",
     "Key_RightGui", "Key_6", "Key_7", "Key_8", "Key_9", "Key_0", "LockLayer(NUMPAD)",
     "Key_Enter", "Key_Y", "Key_U", "Key_I", "Key_O", "Key_P", "Key_Equals",
     "Key_H", "Key_J", "Key_K", "Key_L", "Key_Semicolon", "Key_Quote",
     "Key_RightAlt", "Key_N", "Key_M", "Key_Comma", "Key_Period", "Key_Slash", "Key_Minus",
     "Key_RightShift", "Key_Spacebar", "Key_Spacebar", "Key_RightControl",
     "ShiftToLayer(NAVIGATION)" >>

SYMBOL_KEYMAP ==
  << "___", "Key_F1", "Key_F2", "Key_F3", "Key_F4", "Key_F5", "Key_F6",
     "___", "LSHIFT(Key_4)", "LSHIFT(Key_2)", "Key_LeftParen", "Key_RightParen", "LSHIFT(Key_1)", "___",
     "___", "LSHIFT(Key_5)", "LSHIFT(Key_3)", "Key_LeftCurlyBracket", "Key_RightCurlyBracket", "LSHIFT(Key_Equals)",
     "___", "___", "XXX", "Key_LeftBracket", "Key_LeftBracket", "XXX", "XXX",
     "___", "Key_Delete", "Key_Delete", "___",
     "XXX",
     "Key_F7", "Key_F8", "Key_F9", "Key_F10", "Key_F11", "Key_F12", "___",
     "LCTRL(Key_Enter)", "Key_Equals", "Key_Minus", "LSHIFT(Key_Comma)", "LSHIFT(Key_Period)", "XXX", "___",
     "Key_Minus", "LSHIFT(Key_8)", "LSHIFT(Key_7)", "Key_Pipe", "___", "___",
     "___", "___", "Key_Backslash", "Key_Slash", "___", "___", "___",
     "___", "___", "LSHIFT(Key_Minus)", "___",
     "ShiftToLayer(SPECIAL)" >>

NAVIGATION_KEYMAP ==
  << "___", "Key_F1", "Key_F2", "Key_F3", "Key_F4", "Key_F5", "Key_F6",
     "___", "LSHIFT(Key_4)", "LSHIFT(Key_2)", "Key_LeftParen", "Key_RightParen", "LSHIFT(Key_1)", "___",
     "___", "LSHIFT(Key_5)", "LSHIFT(Key_3)", "Key_LeftCurlyBracket", "Key_RightCurlyBracket", "LSHIFT(Key_Equals)",
     "___", "___", "XXX", "Key_LeftBracket", "Key_RightBracket", "XXX", "XXX",
     "___", "Key_Delete", "Key_Delete", "___",
     "ShiftToLayer(SPECIAL)",
     "Key_F7", "Key_F8", "Key_F9", "Key_F10", "Key_F11", "Key_F12", "___",
     "LCTRL(Key_Enter)", "XXX", "XXX", "Key_UpArrow", "Key_LeftBracket", "Key_RightBracket", "___",
     "___", "Key_LeftArrow", "Key_DownArrow", "Key_RightArrow", "___", "___",
     "___", "___", "Key_Home", "XXX", "Key_End", "XXX", "___",
     "___", "___", "LSHIFT(Key_Minus)", "___",
     "XXX" >>

GAMING_KEYMAP ==
  << "Key_Esc", "Key_1", "Key_2", "Key_3", "Key_4", "Key_5", "Key_LeftGui",
     "XXX", "Key_Backtick", "Key_Q", "Key_W", "Key_E", "Key_R", "Key_T",
     "XXX", "Key_CapsLock", "Key_A", "Key_S", "Key_D", "Key_F",
     "XXX", "Key_LeftAlt", "Key_Z", "Key_X", "Key_C", "Key_V", "Key_B",
     "Key_LeftControl", "Key_Backspace", "Key_Backspace", "Key_LeftShift",
     "ShiftToLayer(SYMBOL)",
     "Key_RightGui", "Key_6", "Key_7", "Key_8", "Key_9", "Key_0", "LockLayer(PRIMARY)",
     "Key_Enter", "Key_Y", "Key_U", "Key_I", "Key_O", "Key_P", "Key_Equals",
     "Key_H", "Key_J", "Key_K", "Key_L", "Key_Semicolon", "Key_Quote",
     "Key_RightAlt", "Key_N", "Key_M", "Key_Comma", "Key_Period", "Key_Slash", "Key_Minus",
     "Key_RightShift", "Key_Spacebar", "Key_Spacebar", "Key_RightControl",
     "ShiftToLayer(NAVIGATION)" >>

NUMPAD_KEYMAP ==
  << "___", "___", "___", "___", "___", "___", "___",
     "___", "___", "___", "___", "___", "___", "___",
     "___", "___", "___", "___", "___", "___",
     "___", "___", "___", "___", "___", "___", "___",
     "___", "___", "___", "___",
     "___",
     "___", "___", "Key_7", "Key_8", "Key_9", "Key_KeypadSubtract", "___",
     "___", "___", "Key_4", "Key_5", "Key_6", "Key_KeypadAdd", "___",
     "___", "Key_1", "Key_2", "Key_3", "Key_Equals", "___",
     "___", "___", "Key_0", "Key_Period", "Key_KeypadMultiply", "Key_KeypadDivide", "Key_Enter",
     "___", "___", "___", "___",
     "___" >>
\* The keymap list with PRIMARY first, out of step with the layer enum.
KEYMAPS_PrimaryFirst ==
  <<PRIMARY_KEYMAP, SPECIAL_KEYMAP, SYMBOL_KEYMAP, NAVIGATION_KEYMAP,
    GAMING_KEYMAP, NUMPAD_KEYMAP>>

KEYMAPS ==
  <<SPECIAL_KEYMAP, PRIMARY_KEYMAP, SYMBOL_KEYMAP, NAVIGATION_KEYMAP,
    GAMING_KEYMAP, NUMPAD_KEYMAP>>

layer_count == Len(KEYMAPS)

\* Keymap with NUMPAD binding XXX instead of ___ at the top-right switch.
Keymap_NumpadBlocksLock(l, p) ==
  IF l = NUMPAD /\ p = <<0, 15>> THEN XXX
  ELSE KEYMAPS[l + 1][StackedIndex(p)]

\* The entry a layer binds at a switch.
Keymap(l, p) == KEYMAPS[l + 1][StackedIndex(p)]

\* Resolve with XXX treated like ___ (a blocked entry falls through).
RECURSIVE Resolve_BlockedFallsThrough(_, _)
Resolve_BlockedFallsThrough(stack, p) ==
  IF stack = <<>> THEN Key_Transparent
  ELSE LET k == Keymap(stack[Len(stack)], p)
       IN  IF k \in {Key_Transparent, XXX}
           THEN Resolve_BlockedFallsThrough(SubSeq(stack, 1, Len(stack) - 1), p)
           ELSE k

\* Resolve that reads the top layer only (no fall-through).
Resolve_TopOnly(stack, p) ==
  IF stack = <<>> THEN Key_Transparent ELSE Keymap(stack[Len(stack)], p)

\* Layer resolution over a stack kept bottom first, most recently activated
\* last: the first entry from the top that is not ___ is the key, XXX
\* included; a stack that holds ___ all the way down leaves the switch
\* unresolved, with Key_Transparent as the value looked up.
RECURSIVE Resolve(_, _)
Resolve(stack, p) ==
  IF stack = <<>> THEN Key_Transparent
  ELSE LET k == Keymap(stack[Len(stack)], p)
       IN  IF k = Key_Transparent THEN Resolve(SubSeq(stack, 1, Len(stack) - 1), p)
           ELSE k

IsShiftKey(k) == \E l \in Layers : k = ShiftToLayer(l)
IsLockKey(k) == \E l \in Layers : k = LockLayer(l)
IsLayerKey(k) == IsShiftKey(k) \/ IsLockKey(k)
TargetLayer(k) == CHOOSE l \in Layers : k \in {ShiftToLayer(l), LockLayer(l)}

isActive(stack, l) == \E i \in 1..Len(stack) : stack[i] = l
stackPosition(stack, l) == CHOOSE i \in 1..Len(stack) : stack[i] = l
remove(stack, i) == SubSeq(stack, 1, i - 1) \o SubSeq(stack, i + 1, Len(stack))

\* An activated layer goes on top of the stack; one already active is moved.
Layer_activate(stack, l) ==
  IF l >= layer_count THEN stack
  ELSE Append(IF isActive(stack, l) THEN remove(stack, stackPosition(stack, l))
              ELSE stack, l)

Layer_move(stack, l) == IF l >= layer_count THEN stack ELSE <<l>>

\* Deactivating the sole active layer falls back to layer 0.
Layer_deactivate(stack, l) ==
  IF ~isActive(stack, l) THEN stack
  ELSE IF Len(stack) <= 1 THEN Layer_move(stack, 0)
  ELSE remove(stack, stackPosition(stack, l))

\* ShiftToLayer(n) switches to n while held, LockLayer(n) when tapped.
\* live is the live-keys table after the event's own switch was updated.
handleLayerKeyEvent(stack, live, key, toggledOn) ==
  IF IsShiftKey(key)
  THEN IF toggledOn THEN Layer_activate(stack, TargetLayer(key))
       ELSE IF \E q \in DOMAIN live : live[q] = key THEN stack
       ELSE Layer_deactivate(stack, TargetLayer(key))
  ELSE IF IsLockKey(key) /\ toggledOn
  THEN IF isActive(stack, TargetLayer(key))
       THEN Layer_deactivate(stack, TargetLayer(key))
       ELSE Layer_activate(stack, TargetLayer(key))
  ELSE stack

\* Layer state before setup runs: layer 0 alone is active.
BootLayers == <<0>>

\* setup(): Layer.activate(1)
setup(stack) == Layer_activate(stack, 1)

\* The switches the model actuates: every switch that binds a layer key on
\* some layer, and the prog key as an ordinary key.
PressableKeys ==
  {p \in Positions : \E l \in Layers : IsLayerKey(Keymap(l, p))} \cup {<<0, 0>>}

Inactive == "Key_Inactive"

Setup ==
  /\ pc = "boot"
  /\ pc' = "loop"
  /\ active_layers' = setup(active_layers)
  /\ UNCHANGED <<pressed, live_keys, resolve_vars, macro_vars, host_vars>>

KeyPress(p) ==
  /\ pc = "loop"
  /\ p \notin pressed
  /\ LET key == Resolve(active_layers, p)
         live == [live_keys EXCEPT
                    ![p] = IF key = Key_Transparent THEN Inactive ELSE key]
     IN  /\ live_keys' = live
         /\ active_layers' =
              IF IsLayerKey(key)
              THEN handleLayerKeyEvent(active_layers, live, key, TRUE)
              ELSE active_layers
  /\ pressed' = pressed \cup {p}
  /\ UNCHANGED <<pc, resolve_vars, macro_vars, host_vars>>

KeyRelease(p) ==
  /\ pc = "loop"
  /\ p \in pressed
  /\ LET key == live_keys[p]
         live == [live_keys EXCEPT ![p] = Inactive]
     IN  /\ live_keys' = live
         /\ active_layers' =
              IF IsLayerKey(key)
              THEN handleLayerKeyEvent(active_layers, live, key, FALSE)
              ELSE active_layers
  /\ pressed' = pressed \ {p}
  /\ UNCHANGED <<pc, resolve_vars, macro_vars, host_vars>>

(* ------------------------------ macros --------------------------------- *)

\* enum { MACRO_VERSION_INFO, MACRO_ANY }
MACRO_VERSION_INFO == 0
MACRO_ANY == 1

\* The macro ids an event may carry: the two of the enum and one unbound id.
MacroIds == {MACRO_VERSION_INFO, MACRO_ANY, MACRO_ANY + 1}

\* A key state holds the switch's previous and current reading.
keyToggledOn(key_state) == key_state.IS_PRESSED /\ ~key_state.WAS_PRESSED

VERSION_TEXT == "Keyboardio Model 100 - Firmware version "
KALEIDOSCOPE_FIRMWARE_VERSION == "KALEIDOSCOPE_FIRMWARE_VERSION"

\* versionInfoMacro typing whenever the key is down, held included.
versionInfoMacro_WhilePressed(key_state, out) ==
  IF key_state.IS_PRESSED
  THEN out \o <<VERSION_TEXT, KALEIDOSCOPE_FIRMWARE_VERSION>>
  ELSE out

\* versionInfoMacro: out is what Macros.type has typed so far.
versionInfoMacro(key_state, out) ==
  IF keyToggledOn(key_state)
  THEN out \o <<VERSION_TEXT, KALEIDOSCOPE_FIRMWARE_VERSION>>
  ELSE out

\* Key_A.getKeyCode()
Key_A_KeyCode == 4

\* The clock is a uint32_t kept as <<high, low>> 16-bit halves.
Half == 65536
MillisMod(now, n) == (now[1] * (Half % n) + now[2]) % n

\* anyKeyMacro without the setFlags(0).
anyKeyMacro_KeepsFlags(ev, now) ==
  IF keyToggledOn(ev.state)
  THEN [ev EXCEPT !.key.keyCode =
          (Key_A_KeyCode + (MillisMod(now, 36) % 256)) % 256]
  ELSE ev

\* anyKeyMacro selecting whenever the key is down, held included.
anyKeyMacro_WhilePressed(ev, now) ==
  IF ev.state.IS_PRESSED
  THEN [ev EXCEPT !.key =
          [keyCode |-> (Key_A_KeyCode + (MillisMod(now, 36) % 256)) % 256,
           flags |-> 0]]
  ELSE ev

\* anyKeyMacro: setKeyCode takes a uint8_t.
anyKeyMacro(ev, now) ==
  IF keyToggledOn(ev.state)
  THEN [ev EXCEPT !.key =
          [keyCode |-> (Key_A_KeyCode + (MillisMod(now, 36) % 256)) % 256,
           flags |-> 0]]
  ELSE ev

\* macroAction with the first case's break missing: MACRO_VERSION_INFO falls
\* through into the MACRO_ANY case.
macroAction_FallThrough(macro_id, ev, out, now) ==
  CASE macro_id = MACRO_VERSION_INFO ->
         [event |-> anyKeyMacro(ev, now),
          typed |-> versionInfoMacro(ev.state, out),
          result |-> "MACRO_NONE"]
    [] macro_id = MACRO_ANY ->
         [event |-> anyKeyMacro(ev, now), typed |-> out,
          result |-> "MACRO_NONE"]
    [] OTHER ->
         [event |-> ev, typed |-> out, result |-> "MACRO_NONE"]

\* macroAction: the switch over macro_id; the result is always MACRO_NONE.
macroAction(macro_id, ev, out, now) ==
  CASE macro_id = MACRO_VERSION_INFO ->
         [event |-> ev, typed |-> versionInfoMacro(ev.state, out),
          result |-> "MACRO_NONE"]
    [] macro_id = MACRO_ANY ->
         [event |-> anyKeyMacro(ev, now), typed |-> out, result |-> "MACRO_NONE"]
    [] OTHER ->
         [event |-> ev, typed |-> out, result |-> "MACRO_NONE"]

MaxEvents == 4

\* Clock readings the events are taken at, up to the last uint32_t value.
MillisSamples ==
  {<<0, lo>> : lo \in {0, 1, 25, 26, 35, 36, 37, 255, 256}}
    \cup {<<1, 0>>, <<Half \div 2, 0>>, <<Half - 1, Half - 1>>}

\* Flags the macro key's value may carry when the event arrives.
InFlags == {96, 255}

NoEvent ==
  [macro_id |-> MACRO_VERSION_INFO,
   state |-> [WAS_PRESSED |-> FALSE, IS_PRESSED |-> FALSE],
   key |-> [keyCode |-> 0, flags |-> 0], in_key |-> [keyCode |-> 0, flags |-> 0]]

\* The live value of a macro key's switch while the key is not down.
NoLiveKey == [keyCode |-> 0, flags |-> 0]

\* One call of macroAction for the key bound to M(id), arriving with the
\* value in_key: the handler's effect on the event and on what has been typed.
MacroCall(id, was, is, now, in_key) ==
  LET ev == [macro_id |-> id,
             state |-> [WAS_PRESSED |-> was, IS_PRESSED |-> is],
             key |-> in_key, in_key |-> in_key]
  IN  macroAction(id, ev, typed, now)

\* A toggled-on event arrives with the keymap's value M(id); what the
\* handler leaves in the event becomes the switch's live value.
MacroToggledOn ==
  \E id \in MacroIds, now \in MillisSamples, f \in InFlags :
    LET r == MacroCall(id, FALSE, TRUE, now, [keyCode |-> id, flags |-> f])
    IN  /\ n_events < MaxEvents
        /\ ~macro_pressed[id]
        /\ event' = r.event
        /\ typed' = r.typed
        /\ macro_result' = r.result
        /\ macro_live' = [macro_live EXCEPT ![id] = r.event.key]
        /\ n_version_on' = IF id = MACRO_VERSION_INFO THEN n_version_on + 1
                           ELSE n_version_on
        /\ millis' = now
        /\ macro_pressed' = [macro_pressed EXCEPT ![id] = TRUE]
        /\ n_events' = n_events + 1
        /\ UNCHANGED <<layer_vars, resolve_vars, host_vars>>

\* A held event arrives with the switch's live value.
MacroHeld ==
  \E id \in MacroIds, now \in MillisSamples :
    LET r == MacroCall(id, TRUE, TRUE, now, macro_live[id])
    IN  /\ n_events < MaxEvents
        /\ macro_pressed[id]
        /\ event' = r.event
        /\ typed' = r.typed
        /\ macro_result' = r.result
        /\ macro_live' = [macro_live EXCEPT ![id] = r.event.key]
        /\ millis' = now
        /\ n_events' = n_events + 1
        /\ UNCHANGED <<macro_pressed, n_version_on, layer_vars, resolve_vars,
                       host_vars>>

\* A toggled-off event arrives with the switch's live value, which is then
\* cleared.
MacroToggledOff ==
  \E id \in MacroIds, now \in MillisSamples :
    LET r == MacroCall(id, TRUE, FALSE, now, macro_live[id])
    IN  /\ n_events < MaxEvents
        /\ macro_pressed[id]
        /\ event' = r.event
        /\ typed' = r.typed
        /\ macro_result' = r.result
        /\ macro_live' = [macro_live EXCEPT ![id] = NoLiveKey]
        /\ millis' = now
        /\ macro_pressed' = [macro_pressed EXCEPT ![id] = FALSE]
        /\ n_events' = n_events + 1
        /\ UNCHANGED <<n_version_on, layer_vars, resolve_vars, host_vars>>

(* ------------------------- host power, keymap source ------------------- *)

\* kaleidoscope::plugin::HostPowerManagement::Event
PowerEvents == {"Suspend", "Sleep", "Resume"}

\* toggleLedsOnSuspendResume with the Sleep label missing from the switch.
toggleLedsOnSuspendResume_SleepUnhandled(ev) ==
  CASE ev = "Suspend" -> <<"LEDControl.disable">>
    [] ev = "Resume" -> <<"LEDControl.enable">>
    [] OTHER -> <<>>

\* toggleLedsOnSuspendResume: the calls on LEDControl an event leads to.
toggleLedsOnSuspendResume(ev) ==
  CASE ev \in {"Suspend", "Sleep"} -> <<"LEDControl.disable">>
    [] ev = "Resume" -> <<"LEDControl.enable">>
    [] OTHER -> <<>>

hostPowerManagementEventHandler(ev) == toggleLedsOnSuspendResume(ev)

\* The LED driver's enabled state after a sequence of calls on it.
RECURSIVE LEDControl(_, _)
LEDControl(enabled, calls) ==
  IF calls = <<>> THEN enabled
  ELSE LEDControl(Head(calls) = "LEDControl.enable", Tail(calls))

MaxPowerEvents == 3

HostPowerEvent ==
  \E ev \in PowerEvents :
    /\ Len(power_log) < MaxPowerEvents
    /\ power_log' = Append(power_log, ev)
    /\ led_calls' = led_calls \o hostPowerManagementEventHandler(ev)
    /\ leds_enabled' =
         LEDControl(leds_enabled, hostPowerManagementEventHandler(ev))
    /\ UNCHANGED <<layer_vars, resolve_vars, macro_vars, source_vars>>

\* What Layer.getKey may point at.
KeymapSources == {"Layer.getKeyFromPROGMEM", "EEPROMKeymap.getKey"}

\* The positions of the USE_MAGIC_COMBOS list, passed as combo_index.
ComboIndices == {0, 1, 2}

\* toggleKeymapSource whose else branch assigns the EEPROM lookup again.
toggleKeymapSource_NeverBack(combo_index, source) == "EEPROMKeymap.getKey"

\* toggleKeymapSource: the new value of Layer.getKey.
toggleKeymapSource(combo_index, source) ==
  IF source = "Layer.getKeyFromPROGMEM" THEN "EEPROMKeymap.getKey"
  ELSE "Layer.getKeyFromPROGMEM"

MaxToggles == 3

\* One invocation of toggleKeymapSource; source_log keeps what it was
\* called with and what it left.
ToggleKeymapSource ==
  \E combo_index \in ComboIndices :
    /\ Len(source_log) < MaxToggles
    /\ getKey' = toggleKeymapSource(combo_index, getKey)
    /\ source_log' =
         Append(source_log,
                [before |-> getKey, combo_index |-> combo_index,
                 after |-> toggleKeymapSource(combo_index, getKey)])
    /\ UNCHANGED <<layer_vars, resolve_vars, macro_vars, power_vars>>

(* --------------------------- specifications ---------------------------- *)

MaxStackDepth == 4

RECURSIVE Stacks(_)
Stacks(n) ==
  IF n = 0 THEN {<<>>}
  ELSE {Append(s, l) : s \in Stacks(n - 1), l \in Layers}

Distinct(s) == \A i, j \in 1..Len(s) : s[i] = s[j] => i = j

AllStacks == {s \in UNION {Stacks(n) : n \in 1..MaxStackDepth} : Distinct(s)}

InitLayers ==
  /\ pc = "boot"
  /\ active_layers = BootLayers
  /\ pressed = {}
  /\ live_keys = [p \in PressableKeys |-> Inactive]

InitResolve ==
  /\ rs_stack = <<PRIMARY>>
  /\ rs_pos = <<0, 0>>
  /\ rs_key = "pending"

InitMacros ==
  /\ millis = <<0, 0>>
  /\ macro_pressed = [id \in MacroIds |-> FALSE]
  /\ event = NoEvent
  /\ typed = <<>>
  /\ n_version_on = 0
  /\ n_events = 0
  /\ macro_live = [id \in MacroIds |-> NoLiveKey]
  /\ macro_result = "none"

InitHost ==
  /\ leds_enabled = TRUE
  /\ led_calls = <<>>
  /\ power_log = <<>>
  /\ getKey = "Layer.getKeyFromPROGMEM"
  /\ source_log = <<>>

Init == InitLayers /\ InitResolve /\ InitMacros /\ InitHost

Press == \E p \in PressableKeys : KeyPress(p)
Release == \E p \in PressableKeys : KeyRelease(p)

Next == Setup \/ Press \/ Release

Spec == Init /\ [][Next]_vars

\* Resolution as a function of its inputs: any stack of distinct layers,
\* any switch.
ResolveInit ==
  /\ InitLayers /\ InitMacros /\ InitHost
  /\ rs_stack \in AllStacks
  /\ rs_pos \in Positions
  /\ rs_key = "pending"

ResolveKey ==
  /\ rs_key = "pending"
  /\ rs_key' = Resolve(rs_stack, rs_pos)
  /\ UNCHANGED <<rs_stack, rs_pos, layer_vars, macro_vars, host_vars>>

ResolveNext == ResolveKey

ResolveSpec == ResolveInit /\ [][ResolveNext]_vars

MacroNext == MacroToggledOn \/ MacroHeld \/ MacroToggledOff

MacroSpec == Init /\ [][MacroNext]_vars

\* The callbacks the host and the combos drive; the keymap source in use at
\* start is either one.
HostInit ==
  /\ InitLayers /\ InitResolve /\ InitMacros
  /\ leds_enabled = TRUE
  /\ led_calls = <<>>
  /\ power_log = <<>>
  /\ getKey \in KeymapSources
  /\ source_log = <<>>

HostNext == HostPowerEvent \/ ToggleKeymapSource

HostSpec == HostInit /\ [][HostNext]_vars

(* ------------------------------- claims -------------------------------- *)

Top(stack) == stack[Len(stack)]
Front(stack) == SubSeq(stack, 1, Len(stack) - 1)

\* The layers of a stack that bind something other than ___ at p.
Opaque(stack, p) ==
  {i \in 1..Len(stack) : Keymap(stack[i], p) # Key_Transparent}

\* The most recently activated layer of a stack that is not ___ at p.
Deciding(stack, p) ==
  stack[CHOOSE i \in Opaque(stack, p) : \A j \in Opaque(stack, p) : j <= i]

\* C1: once setup has run, PRIMARY is always active: no sequence of presses
\* and releases of the keys the keymaps bind deactivates it, the
\* LockLayer(PRIMARY) key of GAMING included.
C1_PrimaryNeverDeactivated ==
  pc = "loop" => isActive(active_layers, PRIMARY)

\* C2: for every switch and every reachable stack, layer resolution ends
\* with a key or no-key, never unresolved.
C2_NeverUnresolved ==
  pc = "loop" =>
    \A p \in Positions : Resolve(active_layers, p) # Key_Transparent

\* C3: for every switch and every stack, if the most recently activated layer
\* that is not ___ at the switch holds XXX there, the resolved value is
\* no-key (XXX), whatever the layers below bind.
C3_BlockedMasksLower ==
  (rs_key # "pending" /\ Opaque(rs_stack, rs_pos) # {}
     /\ Keymap(Deciding(rs_stack, rs_pos), rs_pos) = XXX)
    => rs_key = XXX

\* A blocked entry above a layer that binds an ordinary key, resolved.
C3_Witness ==
  /\ rs_key = XXX
  /\ Len(rs_stack) >= 2
  /\ Keymap(Top(rs_stack), rs_pos) = XXX
  /\ Keymap(rs_stack[1], rs_pos) \notin {XXX, Key_Transparent}

\* C4 as the specification states it: with the stack [PRIMARY, SYMBOL], SYMBOL
\* binds XXX at (0,3), PRIMARY binds Key_E there, and (0,3) resolves to no-key.
C4_AsStated ==
  (rs_key # "pending" /\ rs_stack = <<PRIMARY, SYMBOL>> /\ rs_pos = <<0, 3>>)
    => /\ Keymap(SYMBOL, rs_pos) = XXX
       /\ Keymap(PRIMARY, rs_pos) = "Key_E"
       /\ rs_key = XXX

\* C4 amended: with the stack [PRIMARY, SYMBOL], (0,3) is Key_F3 on SYMBOL and
\* Key_3 on PRIMARY and resolves to Key_F3; Key_E is PRIMARY's entry at (1,3),
\* where SYMBOL binds Key_LeftParen; at (3,2) SYMBOL binds XXX over PRIMARY's
\* Key_X, and (3,2) resolves to no-key.
C4_SymbolOverPrimary ==
  (rs_key # "pending" /\ rs_stack = <<PRIMARY, SYMBOL>>) =>
    /\ rs_pos = <<0, 3>> =>
         /\ Keymap(SYMBOL, rs_pos) = "Key_F3"
         /\ Keymap(PRIMARY, rs_pos) = "Key_3"
         /\ rs_key = "Key_F3"
    /\ rs_pos = <<1, 3>> =>
         /\ Keymap(SYMBOL, rs_pos) = "Key_LeftParen"
         /\ Keymap(PRIMARY, rs_pos) = "Key_E"
         /\ rs_key = "Key_LeftParen"
    /\ rs_pos = <<3, 2>> =>
         /\ Keymap(SYMBOL, rs_pos) = XXX
         /\ Keymap(PRIMARY, rs_pos) = "Key_X"
         /\ rs_key = XXX

\* (3,2) resolved over [PRIMARY, SYMBOL].
C4_Witness ==
  rs_stack = <<PRIMARY, SYMBOL>> /\ rs_pos = <<3, 2>> /\ rs_key = XXX

\* C5: for every switch, if the top layer's entry is ___, the resolved key
\* is the one resolution gives over the stack without that top layer, which
\* is the entry of the most recent lower layer that is not ___ there; with
\* [PRIMARY, NAVIGATION], (3,0) is ___ on NAVIGATION and resolves to PRIMARY's
\* Key_LeftAlt.
C5_TransparentDefers ==
  rs_key # "pending" =>
    /\ Keymap(Top(rs_stack), rs_pos) = Key_Transparent =>
         /\ rs_key = Resolve(Front(rs_stack), rs_pos)
         /\ rs_key = IF Opaque(Front(rs_stack), rs_pos) = {}
                     THEN Key_Transparent
                     ELSE Keymap(Deciding(Front(rs_stack), rs_pos), rs_pos)
    /\ (rs_stack = <<PRIMARY, NAVIGATION>> /\ rs_pos = <<3, 0>>) =>
         /\ Keymap(NAVIGATION, rs_pos) = Key_Transparent
         /\ Keymap(PRIMARY, rs_pos) = "Key_LeftAlt"
         /\ rs_key = "Key_LeftAlt"

\* (3,0) resolved over [PRIMARY, NAVIGATION].
C5_Witness ==
  /\ rs_stack = <<PRIMARY, NAVIGATION>>
  /\ rs_pos = <<3, 0>>
  /\ rs_key = "Key_LeftAlt"

\* C6: whenever all keys are released, none of the layers reached by
\* ShiftToLayer (SYMBOL, NAVIGATION, SPECIAL) is in the active layer stack.
C6_NoShiftLayerWhenReleased ==
  (pc = "loop" /\ pressed = {}) =>
    \A l \in {SYMBOL, NAVIGATION, SPECIAL} : ~isActive(active_layers, l)

\* What n toggled-on transitions of the VersionInfo key type.
RECURSIVE VersionTyped(_)
VersionTyped(n) ==
  IF n = 0 THEN <<>>
  ELSE VersionTyped(n - 1) \o <<VERSION_TEXT, KALEIDOSCOPE_FIRMWARE_VERSION>>

\* C9: over any sequence of key-transition events, what has been typed is
\* the fixed text followed by the firmware version, once for each toggled-on
\* transition of the VersionInfo key and nothing else: held and toggled-off
\* transitions, and the other macro ids, type nothing.
C9_VersionTypedOncePerToggleOn ==
  typed = VersionTyped(n_version_on)

\* Two toggled-on transitions with a release in between, all typed.
C9_Witness ==
  /\ n_version_on = 2
  /\ n_events >= 3
  /\ Len(typed) = 4

\* The codes of Key_A .. Key_Z, Key_1 .. Key_9, Key_0.
AnyKeyAlphabet == Key_A_KeyCode .. (Key_A_KeyCode + 35)

\* C10: a toggled-on activation of the AnyKey macro leaves the event's key
\* code at Key_A's code plus (millis mod 36), which is one of the 36 codes of
\* the letters and digits, and leaves the key's flags at 0.
C10_AnyKeyInAlphabet ==
  (n_events > 0 /\ event.macro_id = MACRO_ANY /\ keyToggledOn(event.state)) =>
    /\ event.key.keyCode = Key_A_KeyCode + MillisMod(millis, 36)
    /\ event.key.keyCode \in AnyKeyAlphabet
    /\ event.key.flags = 0

\* A toggled-on AnyKey event at the last value of the clock, which picks
\* the code 3 above Key_A, with flags that arrived set.
C10_Witness ==
  /\ n_events > 0
  /\ event.macro_id = MACRO_ANY
  /\ keyToggledOn(event.state)
  /\ millis = <<Half - 1, Half - 1>>
  /\ event.in_key.flags # 0
  /\ event.key = [keyCode |-> Key_A_KeyCode + 3, flags |-> 0]

\* C11: the AnyKey selection is made at the toggled-on transition only: a
\* held or toggled-off event of the AnyKey macro leaves the event's key code
\* and flags as they arrived, and while the AnyKey key stays down the live
\* value of its switch is the one chosen at toggled-on, whatever the clock
\* reads at later events.
C11_AnyKeySelectedOnce ==
  [][/\ (n_events' = n_events + 1 /\ event'.macro_id = MACRO_ANY
           /\ ~keyToggledOn(event'.state))
          => event'.key = event'.in_key
     /\ (macro_pressed[MACRO_ANY] /\ macro_pressed'[MACRO_ANY])
          => macro_live'[MACRO_ANY] = macro_live[MACRO_ANY]]_vars

\* The AnyKey key held at a clock reading that selects another code than the
\* live one.
C11_Witness ==
  /\ macro_pressed[MACRO_ANY]
  /\ event.macro_id = MACRO_ANY
  /\ event.state = [WAS_PRESSED |-> TRUE, IS_PRESSED |-> TRUE]
  /\ event.key = macro_live[MACRO_ANY]
  /\ macro_live[MACRO_ANY].flags = 0
  /\ macro_live[MACRO_ANY].keyCode \in AnyKeyAlphabet
  /\ macro_live[MACRO_ANY].keyCode # Key_A_KeyCode + MillisMod(millis, 36)

\* C12: each call of macroAction runs at most one handler and returns
\* MACRO_NONE: MACRO_VERSION_INFO types (on toggled-on) and leaves the event
\* alone, MACRO_ANY changes the event (on toggled-on) and types nothing, any
\* other id types nothing and leaves the event alone.
C12_DispatchToOneHandler ==
  [][n_events' = n_events + 1 =>
       /\ macro_result' = "MACRO_NONE"
       /\ event'.macro_id = MACRO_VERSION_INFO =>
            /\ event'.key = event'.in_key
            /\ typed' = typed \o
                 (IF keyToggledOn(event'.state)
                  THEN <<VERSION_TEXT, KALEIDOSCOPE_FIRMWARE_VERSION>>
                  ELSE <<>>)
       /\ event'.macro_id = MACRO_ANY =>
            /\ typed' = typed
            /\ event'.key =
                 IF keyToggledOn(event'.state)
                 THEN [keyCode |-> Key_A_KeyCode + MillisMod(millis', 36),
                       flags |-> 0]
                 ELSE event'.in_key
       /\ event'.macro_id \notin {MACRO_VERSION_INFO, MACRO_ANY} =>
            /\ typed' = typed
            /\ event'.key = event'.in_key]_vars

\* A toggled-on event of the unbound macro id, after something was typed.
C12_Witness ==
  /\ n_events > 0
  /\ event.macro_id \notin {MACRO_VERSION_INFO, MACRO_ANY}
  /\ keyToggledOn(event.state)
  /\ event.key = event.in_key
  /\ event.in_key.flags # 0
  /\ typed # <<>>
  /\ macro_result = "MACRO_NONE"

\* C13: after any sequence of host power events the LED driver is disabled
\* if the last event was Suspend or Sleep and enabled if it was Resume; each
\* event makes exactly one call, disable or enable, and changes nothing
\* else.
C13_LedsFollowLastPowerEvent ==
  /\ [](/\ Len(led_calls) = Len(power_log)
        /\ \A i \in 1..Len(power_log) :
             led_calls[i] = IF power_log[i] = "Resume"
                            THEN "LEDControl.enable" ELSE "LEDControl.disable"
        /\ power_log # <<>> =>
             leds_enabled = (power_log[Len(power_log)] = "Resume"))
  /\ [][power_log' # power_log =>
          UNCHANGED <<layer_vars, resolve_vars, macro_vars, source_vars>>]_vars

\* Sleep after Resume, with the keymap source toggled in between or before.
C13_Witness ==
  /\ Len(power_log) >= 2
  /\ power_log[Len(power_log)] = "Sleep"
  /\ power_log[Len(power_log) - 1] = "Resume"
  /\ ~leds_enabled
  /\ source_log # <<>>

\* C15: the keymap source is always the built-in lookup or the EEPROM one;
\* each invocation of toggleKeymapSource leaves the other one than it found,
\* two consecutive invocations leave the one the first found, and the
\* combo_index passed makes no difference.
C15_ToggleIsInvolution ==
  /\ getKey \in KeymapSources
  /\ \A i \in 1..Len(source_log) :
       /\ source_log[i].after \in KeymapSources \ {source_log[i].before}
       /\ i >= 2 => /\ source_log[i].before = source_log[i - 1].after
                    /\ source_log[i].after = source_log[i - 1].before
  /\ \A ci, cj \in ComboIndices :
       toggleKeymapSource(ci, getKey) = toggleKeymapSource(cj, getKey)

\* Two invocations with different combo_index, back at the EEPROM lookup.
C15_Witness ==
  /\ Len(source_log) = 2
  /\ source_log[1].combo_index # source_log[2].combo_index
  /\ source_log[1].before = "EEPROMKeymap.getKey"
  /\ getKey = "EEPROMKeymap.getKey"

\* C14: from the stack setup leaves, a press of the top-right switch (0,15),
\* PRIMARY's LockLayer(NUMPAD), puts NUMPAD on top; NUMPAD stays there over
\* that key's release and over presses and releases of a key that is no layer
\* key; the next press of (0,15), ___ on NUMPAD, gives back exactly the stack
\* setup left.
C14_LockNumpadIsUndone ==
  [][/\ (active_layers = setup(BootLayers)
           /\ <<0, 15>> \notin pressed /\ <<0, 15>> \in pressed')
          => active_layers' = Append(setup(BootLayers), NUMPAD)
     /\ (active_layers = Append(setup(BootLayers), NUMPAD)
           /\ pressed' \ pressed \subseteq {<<0, 0>>}
           /\ pressed \ pressed' \subseteq {<<0, 0>>, <<0, 15>>})
          => active_layers' = active_layers
     /\ (active_layers = Append(setup(BootLayers), NUMPAD)
           /\ <<0, 15>> \notin pressed /\ <<0, 15>> \in pressed')
          => active_layers' = setup(BootLayers)]_vars

\* The second press of (0,15): the key is down as LockLayer(NUMPAD) and the
\* stack is the one setup left.
C14_Witness ==
  /\ pc = "loop"
  /\ active_layers = setup(BootLayers)
  /\ <<0, 15>> \in pressed
  /\ live_keys[<<0, 15>>] = LockLayer(NUMPAD)

====
